---- MODULE Spec2Model ----
(***************************************************************************)
(* State-machine model of llm_wrapper_mcp_server: the protocol loop and    *)
(* request pipeline of LLMMCPWrapper (llm_mcp_wrapper.py) and the gateway  *)
(* LLMClient with its accounting manager (llm_client_parts/).              *)
(*                                                                         *)
(* Text is modelled as a sequence of one-character strings, so that the    *)
(* substring test, str.replace, str.strip and str.split are computed the   *)
(* way Python computes them.                                               *)
(***************************************************************************)
EXTENDS Integers, Sequences, FiniteSets, TLC

VARIABLES
    environ,      \* os.environ: [OPENROUTER_API_KEY |-> text, <<>> when unset]
    argv_skip,    \* "--skip-outbound-key-leaks" in sys.argv
    wrapper,      \* the LLMMCPWrapper instance's attributes
    llm_client,   \* wrapper.llm_client: the persistent LLMClient's attributes
    pc,           \* position of LLMMCPWrapper.run
    line,         \* the line run() read last (a parsed view of it)
    out,          \* the JSON lines written to stdout since the loop top
    trace,        \* the steps performed for the current line, in order
    used,         \* what the dispatch of the current line used
    redact,       \* the redaction unit: input text and its redactions
    log,          \* the logging unit: one logger call and what becomes of it
    main,         \* __main__.main: its arguments, the allowed-models file, its position
    ask,          \* AskOnlineQuestionServer.run: its position and what it has done
    acct          \* the accounting unit: one LLMAccountingManager and the calls on it

vars == <<environ, argv_skip, wrapper, llm_client, pc, line, out, trace, used, redact, log, main, ask, acct>>

(***************************************************************************)
(* Python text operations                                                  *)
(***************************************************************************)
Rep(c, n) == [i \in 1..n |-> c]

\* s.startswith(p)
StartsWith(s, p) == Len(s) >= Len(p) /\ SubSeq(s, 1, Len(p)) = p

\* sub in s
Contains(s, sub) ==
    \E i \in 1..(Len(s) - Len(sub) + 1) : SubSeq(s, i, i + Len(sub) - 1) = sub

\* s.replace(old, new) for a non-empty old: leftmost, non-overlapping
RECURSIVE StrReplace(_, _, _)
StrReplace(s, old, new) ==
    IF Len(s) < Len(old) THEN s
    ELSE IF SubSeq(s, 1, Len(old)) = old
         THEN new \o StrReplace(SubSeq(s, Len(old) + 1, Len(s)), old, new)
         ELSE <<s[1]>> \o StrReplace(Tail(s), old, new)

Whitespace == {" "}

RECURSIVE LStrip(_)
LStrip(s) == IF s # <<>> /\ s[1] \in Whitespace THEN LStrip(Tail(s)) ELSE s

RECURSIVE RStrip(_)
RStrip(s) ==
    IF s # <<>> /\ s[Len(s)] \in Whitespace
    THEN RStrip(SubSeq(s, 1, Len(s) - 1)) ELSE s

\* s.strip()
Strip(s) == RStrip(LStrip(s))

\* s.split(sep) for a one-character sep
RECURSIVE Split(_, _)
Split(s, sep) ==
    IF \A i \in 1..Len(s) : s[i] # sep THEN <<s>>
    ELSE LET i == CHOOSE k \in 1..Len(s) :
                      s[k] = sep /\ \A j \in 1..(k - 1) : s[j] # sep
         IN  <<SubSeq(s, 1, i - 1)>> \o Split(SubSeq(s, i + 1, Len(s)), sep)

(***************************************************************************)
(* API keys and the redaction placeholder                                  *)
(***************************************************************************)
MinKeyLen == 32

KeyPrefix == <<"s", "k", "-">>

\* LLMClient.__init__'s format check of the API key
ValidKey(k) == StartsWith(k, KeyPrefix) /\ Len(k) >= MinKeyLen

Placeholder ==
    <<"(", "A", "P", "I", " ", "k", "e", "y", " ",
      "r", "e", "d", "a", "c", "t", "e", "d", " ", "d", "u", "e", " ",
      "t", "o", " ", "s", "e", "c", "u", "r", "i", "t", "y", " ",
      "r", "e", "a", "s", "o", "n", "s", ")">>

\* The keys the model is run with: both pass ValidKey.
KeyA == KeyPrefix \o Rep("a", MinKeyLen - Len(KeyPrefix))
KeyB == KeyPrefix \o Rep("b", MinKeyLen - Len(KeyPrefix) - 1) \o <<"(">>
Keys == {KeyA, KeyB}
NoKey == <<>>

\* LLMClient.redact_api_key
redact_api_key(client, content) ==
    IF client.skip_redaction THEN content
    ELSE IF client.api_key # <<>> /\ Contains(content, client.api_key)
         THEN StrReplace(content, client.api_key, Placeholder)
         ELSE content

(***************************************************************************)
(* Messages: a format text and the value substituted into it               *)
(***************************************************************************)
Msg(fmt, arg) == [pre |-> "", fmt |-> fmt, arg |-> arg]

\* f"Internal error: {str(e)}"
InternalError(m) == [pre |-> "Internal error: ", fmt |-> m.fmt, arg |-> m.arg]

Exc(type, m) == [type |-> type, msg |-> m]
NoExc == Exc("none", Msg("", ""))

(***************************************************************************)
(* LLMAccountingManager (llm_client_parts/_accounting.py)                  *)
(* w is what the outside world does during one call: w.audit_fail names    *)
(* the audit method whose storage raises, w.tracker_fail says whether the  *)
(* usage tracker's storage raises, w.http is the remote API's answer.      *)
(***************************************************************************)
\* LLMAccountingManager.__init__: a channel is present when it is enabled
NewAccountingManager(enable_logging, enable_audit_log) ==
    [has_tracker |-> enable_logging, has_audit |-> enable_audit_log]

\* LLMAccountingManager.log_prompt: no try/except around the audit logger
log_prompt(client, w) ==
    IF client.has_audit
    THEN [events |-> <<"log_prompt">>, raised |-> w.audit_fail = "log_prompt"]
    ELSE [events |-> <<>>, raised |-> FALSE]

\* LLMAccountingManager.log_response: no try/except around the audit logger
log_response(client, w) ==
    IF client.has_audit
    THEN [events |-> <<"log_response">>, raised |-> w.audit_fail = "log_response"]
    ELSE [events |-> <<>>, raised |-> FALSE]

\* Mutant: usage tracking switched by the audit toggle
track_usage_FollowsAudit(client, w) ==
    IF client.has_audit
    THEN [events |-> <<"track_usage">>, raised |-> FALSE]
    ELSE [events |-> <<>>, raised |-> FALSE]

\* LLMAccountingManager.track_usage: the tracker's exception is caught and logged
track_usage(client, w) ==
    IF client.has_tracker
    THEN [events |-> <<"track_usage">>, raised |-> FALSE]
    ELSE [events |-> <<>>, raised |-> FALSE]

(***************************************************************************)
(* LLMClient (llm_client_parts/_llm_client_core.py)                        *)
(***************************************************************************)
DefaultBaseUrl == "https://openrouter.ai/api/v1"

\* get_api_base_url
get_api_base_url(api_base_url) ==
    IF api_base_url # "" THEN api_base_url ELSE DefaultBaseUrl

\* LLMClient.__init__ (env_key is os.getenv("OPENROUTER_API_KEY"), <<>> when unset)
NewLLMClient(model, api_base_url, api_key, enable_logging, enable_rate_limiting, enable_audit_log, skip_outbound_key_checks, env_key) ==
    LET am == NewAccountingManager(enable_logging, enable_audit_log)
    IN  [api_key |-> IF api_key # <<>> THEN api_key ELSE env_key,
         model |-> model,
         base_url |-> get_api_base_url(api_base_url),
         skip_redaction |-> skip_outbound_key_checks,
         enable_rate_limiting |-> enable_rate_limiting,
         has_tracker |-> am.has_tracker,
         has_audit |-> am.has_audit]

\* LLMClient.__init__ raises ValueError unless the key passes the format check
ConstructionSucceeds(api_key, env_key) ==
    ValidKey(IF api_key # <<>> THEN api_key ELSE env_key)

Sent(events, exc, content) ==
    [events |-> events, raised |-> exc.type # "none", exc |-> exc, content |-> content]

NoContent == [t |-> "none", s |-> <<>>]
Text(s) == [t |-> "str", s |-> s]

\* Mutant: a timed-out POST is tried a second time
send_llm_request_Retries(client, http) ==
    IF http.kind = "timeout"
    THEN Sent(<<"post", "post">>, Exc("Timeout", Msg("Read timed out", "")), NoContent)
    ELSE IF http.kind = "connection"
    THEN Sent(<<"post">>, Exc("ConnectionError", Msg("Connection refused", "")), NoContent)
    ELSE IF http.status >= 400
    THEN Sent(<<"post">>, Exc("HTTPError", Msg("", "")), NoContent)
    ELSE IF http.body = "nochoices"
    THEN Sent(<<"post">>,
              Exc("RuntimeError",
                  Msg("Invalid API response format: Missing choices array", "")),
              NoContent)
    ELSE IF http.body = "nocontent"
    THEN Sent(<<"post">>,
              Exc("RuntimeError",
                  Msg("Invalid API response format: Missing message content", "")),
              NoContent)
    ELSE IF http.content.t # "str" /\ ~client.skip_redaction /\ client.api_key # <<>>
    THEN \* self.api_key in content, content not a string
         Sent(<<"post">>, Exc("TypeError", Msg("argument is not iterable", "")), NoContent)
    ELSE IF http.content.t # "str"
    THEN Sent(<<"post">>, NoExc, http.content)
    ELSE Sent(<<"post">>, NoExc, Text(redact_api_key(client, http.content.s)))

\* LLMClient._send_llm_request: one POST, raise_for_status, parse, redact
send_llm_request(client, http) ==
    IF http.kind = "timeout"
    THEN Sent(<<"post">>, Exc("Timeout", Msg("Read timed out", "")), NoContent)
    ELSE IF http.kind = "connection"
    THEN Sent(<<"post">>, Exc("ConnectionError", Msg("Connection refused", "")), NoContent)
    ELSE IF http.status >= 400
    THEN Sent(<<"post">>, Exc("HTTPError", Msg("", "")), NoContent)
    ELSE IF http.body = "nochoices"
    THEN Sent(<<"post">>,
              Exc("RuntimeError",
                  Msg("Invalid API response format: Missing choices array", "")),
              NoContent)
    ELSE IF http.body = "nocontent"
    THEN Sent(<<"post">>,
              Exc("RuntimeError",
                  Msg("Invalid API response format: Missing message content", "")),
              NoContent)
    ELSE IF http.content.t # "str" /\ ~client.skip_redaction /\ client.api_key # <<>>
    THEN \* self.api_key in content, content not a string
         Sent(<<"post">>, Exc("TypeError", Msg("argument is not iterable", "")), NoContent)
    ELSE IF http.content.t # "str"
    THEN Sent(<<"post">>, NoExc, http.content)
    ELSE Sent(<<"post">>, NoExc, Text(redact_api_key(client, http.content.s)))

\* int(response_headers.get(name, 0)) / float(...) of the usage headers
UsageHeadersParse(http) == http.hdr # "garbage"

Generated(events, exc, response) ==
    [events |-> events, raised |-> exc.type # "none", exc |-> exc, response |-> response]

\* Mutant: the Retry-After header ignored, the default always reported
generate_response_except_IgnoresRetryAfter(e, http) ==
    IF e.type = "HTTPError"
    THEN IF http.status = 429
         THEN Exc("RuntimeError",
                  Msg("API rate limit exceeded: Retry after {retry_after} seconds", "60"))
         ELSE Exc("RuntimeError", Msg("API HTTP error: {status} {reason}", http.reason))
    ELSE IF e.type \in {"Timeout", "ConnectionError"}
    THEN Exc("RuntimeError", Msg("Network error: {e}", e.msg.fmt))
    ELSE IF e.type = "KeyError"
    THEN Exc("RuntimeError", Msg("Unexpected API response format: {e}", e.msg.fmt))
    ELSE e

\* The except clauses of LLMClient.generate_response
generate_response_except(e, http) ==
    IF e.type = "HTTPError"
    THEN IF http.status = 429
         THEN Exc("RuntimeError",
                  Msg("API rate limit exceeded: Retry after {retry_after} seconds",
                      IF http.retry_after = "" THEN "60" ELSE http.retry_after))
         ELSE Exc("RuntimeError", Msg("API HTTP error: {status} {reason}", http.reason))
    ELSE IF e.type \in {"Timeout", "ConnectionError"}
    THEN Exc("RuntimeError", Msg("Network error: {e}", e.msg.fmt))
    ELSE IF e.type = "KeyError"
    THEN Exc("RuntimeError", Msg("Unexpected API response format: {e}", e.msg.fmt))
    ELSE e

\* LLMClient.generate_response
generate_response(client, prompt, w) ==
    LET lp == log_prompt(client, w)
        sr == send_llm_request(client, w.http)
        lr == log_response(client, w)
        tu == track_usage(client, w)
        sink == Exc("Exception", Msg("audit storage failure", ""))
    IN  IF lp.raised
        THEN Generated(lp.events, generate_response_except(sink, w.http), NoContent)
        ELSE IF sr.raised
        THEN Generated(lp.events \o sr.events,
                       generate_response_except(sr.exc, w.http), NoContent)
        ELSE IF sr.content.t # "str"
        THEN \* self.encoder.encode(response_content) of a non-string
             Generated(lp.events \o sr.events,
                       Exc("TypeError", Msg("expected string", "")), NoContent)
        ELSE IF lr.raised
        THEN Generated(lp.events \o sr.events \o lr.events,
                       generate_response_except(sink, w.http), NoContent)
        ELSE IF ~UsageHeadersParse(w.http)
        THEN Generated(lp.events \o sr.events \o lr.events,
                       Exc("ValueError", Msg("invalid literal for int()", "")), NoContent)
        ELSE IF tu.raised
        THEN Generated(lp.events \o sr.events \o lr.events \o tu.events,
                       generate_response_except(sink, w.http), NoContent)
        ELSE Generated(lp.events \o sr.events \o lr.events \o tu.events,
                       NoExc, sr.content)

(***************************************************************************)
(* Inputs: the lines on stdin and the answers of the outside world         *)
(***************************************************************************)
MaxModelLen == 4
PromptLimit == 2

SeqsUpTo(S, n) == UNION {[1..k -> S] : k \in 0..n}

ModelAlphabet == {"a", "/", " "}
ModelStrings == SeqsUpTo(ModelAlphabet, MaxModelLen)
DefaultModel == <<"a", "/", "a">>

\* A JSON value as handle_request sees it: t is its Python type, and tokens is
\* what len(encoder.encode(...)) answers for it when it is a string
Absent == [t |-> "absent", s |-> <<>>, n |-> 0, tokens |-> 0]
Str(s) == [t |-> "str", s |-> s, n |-> 0, tokens |-> 0]
Num(n) == [t |-> "int", s |-> <<>>, n |-> n, tokens |-> 0]
Prompt(s, tokens) == [Str(s) EXCEPT !.tokens = tokens]

\* The tokenizer's answers tried for a non-empty prompt
TokenCounts == 1..(PromptLimit + 1)

Hello == <<"H", "i">>
Prompts ==
    {Absent, Str(<<>>), Num(0), Num(5)}
        \cup {Prompt(Hello, n) : n \in TokenCounts}
        \cup {Prompt(Hello \o k \o <<"!">>, n) : k \in Keys, n \in TokenCounts}
Models == {Absent, Num(5)} \cup {Str(m) : m \in ModelStrings}

ToolNames == {"llm_call", "nope"}
RequestIds == {"1"}

JsonLine(method, id, name, arguments, prompt, model) ==
    [kind |-> "json", dict |-> TRUE, method |-> method, id |-> id, name |-> name,
     arguments |-> arguments, prompt |-> prompt, model |-> model]

NoLine == [JsonLine("", "null", "", "dict", Absent, Absent) EXCEPT !.kind = "none"]
EofLine == [NoLine EXCEPT !.kind = "eof"]
\* a blank line, or text that is not JSON
GarbageLine == [NoLine EXCEPT !.kind = "garbage"]
\* JSON that is not an object, such as [1]
NonObjectLine == [NoLine EXCEPT !.kind = "json", !.dict = FALSE]

OtherMethods ==
    {"initialize", "tools/list", "resources/list", "resources/templates/list", "bogus"}

ToolCallLines ==
    {JsonLine("tools/call", id, name, "dict", p, m) :
        id \in RequestIds, name \in ToolNames, p \in Prompts, m \in Models}
    \cup {JsonLine("tools/call", id, "llm_call", "null", Absent, Absent) : id \in RequestIds}

Lines ==
    {GarbageLine, NonObjectLine}
        \cup {JsonLine(m, id, "", "dict", Absent, Absent) : m \in OtherMethods, id \in RequestIds}
        \cup ToolCallLines

Http(kind, status, reason, retry_after, body, content, hdr) ==
    [kind |-> kind, status |-> status, reason |-> reason, retry_after |-> retry_after,
     body |-> body, content |-> content, hdr |-> hdr]

Ok(content, hdr) == Http("response", 200, "200 OK", "", "content", content, hdr)
OkHi == Ok(Text(<<"H", "i", " ", "t", "h", "e", "r", "e">>), "absent")

\* The remote API's answers tried for a client whose key is key
HttpAnswers(key) ==
    {OkHi, [OkHi EXCEPT !.hdr = "numeric"], [OkHi EXCEPT !.hdr = "garbage"],
     Ok(Text(<<"k", "=">> \o key), "absent"),
     Ok([t |-> "null", s |-> <<>>], "absent"),
     Http("response", 429, "429 Too Many Requests", "", "", NoContent, "absent"),
     Http("response", 429, "429 Too Many Requests", "30", "", NoContent, "absent"),
     Http("response", 500, "500 Internal Server Error", "", "", NoContent, "absent"),
     Http("timeout", 0, "", "", "", NoContent, "absent"),
     Http("connection", 0, "", "", "", NoContent, "absent"),
     Http("response", 200, "200 OK", "", "nochoices", NoContent, "absent"),
     Http("response", 200, "200 OK", "", "nocontent", NoContent, "absent")}

World(http, audit_fail, tracker_fail) ==
    [http |-> http, audit_fail |-> audit_fail, tracker_fail |-> tracker_fail]

Worlds(key) ==
    {World(h, "none", FALSE) : h \in HttpAnswers(key)}
        \cup {World(OkHi, "log_prompt", FALSE), World(OkHi, "log_response", FALSE),
              World(OkHi, "none", TRUE)}

NoWorld == World(Http("none", 0, "", "", "", NoContent, "absent"), "none", FALSE)
NoClient == NewLLMClient(<<>>, "none", <<>>, FALSE, FALSE, FALSE, FALSE, <<>>)

\* What the dispatch of one line used: the gateway that served it
\* ("persistent", "temp" or "none") and the world's answers
NoUse == [client |-> "none", gateway |-> NoClient, world |-> NoWorld]

(***************************************************************************)
(* LLMMCPWrapper (llm_mcp_wrapper.py): the lines it writes                  *)
(***************************************************************************)
Response(id, kind, code, message, data, text, isError, result) ==
    [id |-> id, kind |-> kind, code |-> code, message |-> message, data |-> data,
     text |-> text, isError |-> isError, result |-> result]

ErrorResponse(id, code, message, data) ==
    Response(id, "error", code, Msg(message, ""), data, <<>>, "absent", "none")

\* a fixed result of initialize, tools/list, resources/list, resources/templates/list
ResultResponse(id, result) ==
    Response(id, "result", 0, Msg("", ""), Msg("", ""), <<>>, "absent", result)

\* {"content": [{"type": "text", "text": text}], "isError": False}
SuccessResponse(id, text) ==
    Response(id, "result", 0, Msg("", ""), Msg("", ""), text, "false", "content")

ServerReady ==
    Response("null", "notification", 0, Msg("mcp/serverReady", ""), Msg("", ""),
             <<>>, "absent", "capabilities")

ToolNotFound(id, name) ==
    ErrorResponse(id, -32601, "Method not found", Msg("Tool '{name}' not found", name))
MethodNotFound(id, method) ==
    ErrorResponse(id, -32601, "Method not found", Msg("Method '{method}' not found", method))
MissingPrompt(id) ==
    ErrorResponse(id, -32602, "Invalid params", Msg("Missing required 'prompt' argument", ""))
SecurityViolation(id) ==
    ErrorResponse(id, -32602, "Security violation",
                  Msg("Prompt contains sensitive API key - request rejected", ""))
PromptTooLong(id, max) ==
    ErrorResponse(id, -32602, "Invalid params",
                  Msg("Prompt exceeds maximum length of {max} tokens", ToString(max)))
InvalidModel(id, data) ==
    ErrorResponse(id, -32602, "Invalid model specification", Msg(data, ""))
\* the except clause that closes handle_request
HandlerError(id, e) ==
    ErrorResponse(id, -32000, "Internal error", e.msg)
ParseError ==
    ErrorResponse("null", -32700, "Parse error", Msg("Invalid JSON", ""))
\* the catch-all of the request loop
LoopError(id) ==
    ErrorResponse(id, -32000, "Internal error",
                  Msg("Internal server error. Check server logs for details.", ""))

PassedThrough ==
    {"API rate limit exceeded: Retry after {retry_after} seconds",
     "Invalid API response format: Missing choices array",
     "Invalid API response format: Missing message content",
     "Unexpected API response format: {e}"}

\* The message handle_request picks for an exception of the dispatch
ErrorMessage(e) ==
    IF e.type = "Timeout" THEN Msg("LLM call timed out.", "")
    ELSE IF e.type = "HTTPError" THEN Msg("LLM API HTTP error: {status} {reason}", e.msg.arg)
    ELSE IF e.type = "ConnectionError" THEN Msg("LLM API network error: {e}", e.msg.fmt)
    ELSE IF e.type = "RuntimeError" /\ e.msg.fmt \in PassedThrough THEN e.msg
    ELSE InternalError(e.msg)

GatewayError(id, e) ==
    Response(id, "error", -32000, ErrorMessage(e),
             Msg("Internal server error. Check server logs for details.", ""),
             <<>>, "true", "none")

(***************************************************************************)
(* LLMMCPWrapper.handle_request: the checks of tools/call                   *)
(***************************************************************************)
\* Python truth value of a JSON value (not prompt)
Truthy(v) == (v.t = "str" /\ v.s # <<>>) \/ (v.t = "int" /\ v.n # 0)

\* self.openrouter_api_key in prompt, with the toggle and the empty-key guard
KeyLeak(prompt) ==
    /\ ~wrapper.skip_outbound_key_checks
    /\ wrapper.openrouter_api_key # <<>>
    /\ Contains(prompt.s, wrapper.openrouter_api_key)

\* the substring test raises TypeError for a prompt that is no string
KeyCheckRaises(prompt) ==
    /\ ~wrapper.skip_outbound_key_checks
    /\ wrapper.openrouter_api_key # <<>>
    /\ prompt.t # "str"

\* Mutant: the limit taken as exclusive
ExceedsBudget_Inclusive(prompt_tokens) == prompt_tokens >= wrapper.max_user_prompt_tokens

\* prompt_tokens > self.max_user_prompt_tokens
ExceedsBudget(prompt_tokens) == prompt_tokens > wrapper.max_user_prompt_tokens

Verdict(ok, data, model) == [ok |-> ok, data |-> data, model |-> model]

\* Mutant: the separator test left out
ValidateModel_NoSeparatorCheck(model_arg) ==
    LET stripped_model == Strip(model_arg)
        parts == Split(stripped_model, "/")
    IN  IF Len(stripped_model) < 2
        THEN Verdict(FALSE, "Model name must be at least 2 characters", <<>>)
        ELSE IF Len(parts) # 2 \/ \E i \in 1..Len(parts) : parts[i] = <<>>
        THEN Verdict(FALSE,
                     "Model name must contain a provider and a model separated by a single '/'",
                     <<>>)
        ELSE Verdict(TRUE, "", stripped_model)

\* Mutant: the untrimmed argument handed on
ValidateModel_Untrimmed(model_arg) ==
    LET stripped_model == Strip(model_arg)
        parts == Split(stripped_model, "/")
    IN  IF Len(stripped_model) < 2
        THEN Verdict(FALSE, "Model name must be at least 2 characters", <<>>)
        ELSE IF ~Contains(stripped_model, <<"/">>)
        THEN Verdict(FALSE, "Model name must contain a '/' separator", <<>>)
        ELSE IF Len(parts) # 2 \/ \E i \in 1..Len(parts) : parts[i] = <<>>
        THEN Verdict(FALSE,
                     "Model name must contain a provider and a model separated by a single '/'",
                     <<>>)
        ELSE Verdict(TRUE, "", model_arg)

\* The validation of arguments.model
ValidateModel(model_arg) ==
    LET stripped_model == Strip(model_arg)
        parts == Split(stripped_model, "/")
    IN  IF Len(stripped_model) < 2
        THEN Verdict(FALSE, "Model name must be at least 2 characters", <<>>)
        ELSE IF ~Contains(stripped_model, <<"/">>)
        THEN Verdict(FALSE, "Model name must contain a '/' separator", <<>>)
        ELSE IF Len(parts) # 2 \/ \E i \in 1..Len(parts) : parts[i] = <<>>
        THEN Verdict(FALSE,
                     "Model name must contain a provider and a model separated by a single '/'",
                     <<>>)
        ELSE Verdict(TRUE, "", stripped_model)

\* The temporary LLMClient of a model override
TempClient(model_to_use) ==
    NewLLMClient(model_to_use, llm_client.base_url, llm_client.api_key,
                 wrapper.enable_logging, wrapper.enable_rate_limiting,
                 wrapper.enable_audit_log, wrapper.skip_outbound_key_checks,
                 environ.OPENROUTER_API_KEY)

\* if model_to_use: a temporary client, else the persistent one
UsesTemp(model_to_use) == model_to_use # <<>>

\* Mutant: the response written a second time
Finish_WritesTwice(lines, tr, u) ==
    /\ out' = lines \o lines
    /\ trace' = tr
    /\ used' = u
    /\ pc' = "top"
    /\ UNCHANGED <<environ, argv_skip, wrapper, llm_client, line, redact, log, main, ask, acct>>

\* Mutant: the temporary gateway kept as the wrapper's gateway
Finish_RetainsTemp(lines, tr, u) ==
    /\ out' = lines
    /\ trace' = tr
    /\ used' = u
    /\ pc' = "top"
    /\ llm_client' = IF u.client = "temp" THEN u.gateway ELSE llm_client
    /\ UNCHANGED <<environ, argv_skip, wrapper, line, redact, log, main, ask, acct>>

\* The end of one line's processing: what was written, what was done
Finish(lines, tr, u) ==
    /\ out' = lines
    /\ trace' = tr
    /\ used' = u
    /\ pc' = "top"
    /\ UNCHANGED <<environ, argv_skip, wrapper, llm_client, line, redact, log, main, ask, acct>>

\* The dispatch: choose the client, call generate_response, map the outcome
Dispatch(req, model_to_use, tr, u) ==
    LET temp == UsesTemp(model_to_use)
        client == IF temp THEN TempClient(model_to_use) ELSE llm_client
        tr2 == tr \o (IF temp THEN <<"construct">> ELSE <<>>) \o <<"generate_response">>
    IN  \E w \in Worlds(client.api_key) :
            LET g == generate_response(client, req.prompt.s, w)
                u2 == [u EXCEPT !.client = IF temp THEN "temp" ELSE "persistent",
                                !.gateway = client, !.world = w]
            IN  IF g.raised
                THEN Finish(<<GatewayError(req.id, g.exc)>>, tr2 \o g.events, u2)
                ELSE Finish(<<SuccessResponse(req.id, g.response.s)>>, tr2 \o g.events, u2)

\* Model-override validation, then the dispatch
CheckModel(req, tr, u) ==
    IF req.model.t = "absent" THEN Dispatch(req, <<>>, tr, u)
    ELSE IF req.model.t # "str"
    THEN \* model_arg.strip() of a non-string
         Finish(<<HandlerError(req.id, Exc("AttributeError", Msg("no attribute 'strip'", "")))>>,
                tr \o <<"model_validation">>, u)
    ELSE LET v == ValidateModel(req.model.s)
         IN  IF ~v.ok
             THEN Finish(<<InvalidModel(req.id, v.data)>>, tr \o <<"model_validation">>, u)
             ELSE Dispatch(req, v.model, tr \o <<"model_validation">>, u)

\* Token budget, then the model check
CheckBudget(req, tr, u) ==
    IF req.prompt.t # "str"
    THEN \* encoder.encode of a non-string
         Finish(<<HandlerError(req.id, Exc("TypeError", Msg("expected string", "")))>>,
                tr \o <<"encode">>, u)
    ELSE LET prompt_tokens == req.prompt.tokens
         IN  IF ExceedsBudget(prompt_tokens)
             THEN Finish(<<PromptTooLong(req.id, wrapper.max_user_prompt_tokens)>>,
                         tr \o <<"encode">>, u)
             ELSE CheckModel(req, tr \o <<"encode">>, u)

\* Outbound secret check, then the budget
CheckSecret(req, tr, u) ==
    IF KeyCheckRaises(req.prompt)
    THEN Finish(<<HandlerError(req.id, Exc("TypeError", Msg("argument is not iterable", "")))>>,
                tr \o <<"secret_check">>, u)
    ELSE IF KeyLeak(req.prompt)
    THEN Finish(<<SecurityViolation(req.id)>>, tr \o <<"secret_check">>, u)
    ELSE CheckBudget(req, tr \o <<"secret_check">>, u)

\* Mutant: the budget check run right after the prompt check, the secret check skipped
CheckPrompt_SkipsSecretCheck(req, tr, u) ==
    IF req.arguments = "null"
    THEN Finish(<<HandlerError(req.id, Exc("AttributeError", Msg("no attribute 'get'", "")))>>,
                tr \o <<"prompt_check">>, u)
    ELSE IF ~Truthy(req.prompt)
    THEN Finish(<<MissingPrompt(req.id)>>, tr \o <<"prompt_check">>, u)
    ELSE CheckBudget(req, tr \o <<"prompt_check">>, u)

\* Prompt presence, then the secret check
CheckPrompt(req, tr, u) ==
    IF req.arguments = "null"
    THEN \* args.get of None
         Finish(<<HandlerError(req.id, Exc("AttributeError", Msg("no attribute 'get'", "")))>>,
                tr \o <<"prompt_check">>, u)
    ELSE IF ~Truthy(req.prompt)
    THEN Finish(<<MissingPrompt(req.id)>>, tr \o <<"prompt_check">>, u)
    ELSE CheckSecret(req, tr \o <<"prompt_check">>, u)

\* Tool existence, then the prompt check
CheckTool(req, tr, u) ==
    IF req.name \notin wrapper.tools
    THEN Finish(<<ToolNotFound(req.id, req.name)>>, tr \o <<"tool_check">>, u)
    ELSE CheckPrompt(req, tr \o <<"tool_check">>, u)

\* LLMMCPWrapper.handle_request
handle_request(req) ==
    IF req.method = "initialize" THEN Finish(<<ResultResponse(req.id, "initialize")>>, <<>>, NoUse)
    ELSE IF req.method = "tools/list" THEN Finish(<<ResultResponse(req.id, "tools")>>, <<>>, NoUse)
    ELSE IF req.method = "tools/call" THEN CheckTool(req, <<>>, NoUse)
    ELSE IF req.method = "resources/list"
    THEN Finish(<<ResultResponse(req.id, "resources")>>, <<>>, NoUse)
    ELSE IF req.method = "resources/templates/list"
    THEN Finish(<<ResultResponse(req.id, "templates")>>, <<>>, NoUse)
    ELSE Finish(<<MethodNotFound(req.id, req.method)>>, <<>>, NoUse)

(***************************************************************************)
(* Construction and LLMMCPWrapper.run                                      *)
(***************************************************************************)
NoRedact == [pc |-> "off", text |-> <<>>, once |-> <<>>, twice |-> <<>>]
NoLog == [pc |-> "off", msg |-> <<>>, args |-> <<>>, formatted |-> <<>>]
NoMain == [pc |-> "off"]
NoAsk == [pc |-> "off"]
NoAcct == [pc |-> "off"]

\* LLMMCPWrapper.__init__
NewWrapper(llm_api_key, max_user_prompt_tokens, skip_outbound_key_checks, enable_logging, enable_rate_limiting, enable_audit_log, env_key) ==
    [max_user_prompt_tokens |-> max_user_prompt_tokens,
     skip_outbound_key_checks |-> skip_outbound_key_checks,
     openrouter_api_key |-> env_key,
     enable_logging |-> enable_logging,
     enable_rate_limiting |-> enable_rate_limiting,
     enable_audit_log |-> enable_audit_log,
     tools |-> {"llm_call"}]

\* The server as constructed: every configuration whose construction succeeds
Init ==
    \E env_key \in {NoKey} \cup {KeyA}, llm_api_key \in {NoKey} \cup Keys,
       skip \in BOOLEAN, flag \in BOOLEAN, el \in BOOLEAN, ea \in BOOLEAN :
        /\ ConstructionSucceeds(llm_api_key, env_key)
        /\ environ = [OPENROUTER_API_KEY |-> env_key]
        /\ argv_skip = flag
        /\ wrapper = NewWrapper(llm_api_key, PromptLimit, skip, el, TRUE, ea, env_key)
        /\ llm_client = NewLLMClient(DefaultModel, "", llm_api_key, el, TRUE, ea, skip, env_key)
        /\ pc = "start"
        /\ line = NoLine
        /\ out = <<>>
        /\ trace = <<>>
        /\ used = NoUse
        /\ redact = NoRedact
        /\ log = NoLog
        /\ main = NoMain
        /\ ask = NoAsk
        /\ acct = NoAcct

\* Mutant: run() sets the toggle to the flag, enabling the checks when it is absent
RunStart_FlagSetsToggle ==
    /\ pc = "start"
    /\ wrapper' = [wrapper EXCEPT !.skip_outbound_key_checks = argv_skip]
    /\ out' = <<ServerReady>>
    /\ pc' = "top"
    /\ UNCHANGED <<environ, argv_skip, llm_client, line, trace, used, redact, log, main, ask, acct>>

\* Mutant: run() enters the loop without the server-ready notification
RunStart_Silent ==
    /\ pc = "start"
    /\ wrapper' = IF argv_skip
                  THEN [wrapper EXCEPT !.skip_outbound_key_checks = TRUE]
                  ELSE wrapper
    /\ out' = <<>>
    /\ pc' = "top"
    /\ UNCHANGED <<environ, argv_skip, llm_client, line, trace, used, redact, log, main, ask, acct>>

\* run(): the command-line flag, then the server-ready notification
RunStart ==
    /\ pc = "start"
    /\ wrapper' = IF argv_skip
                  THEN [wrapper EXCEPT !.skip_outbound_key_checks = TRUE]
                  ELSE wrapper
    /\ out' = <<ServerReady>>
    /\ pc' = "top"
    /\ UNCHANGED <<environ, argv_skip, llm_client, line, trace, used, redact, log, main, ask, acct>>

\* The top of the request loop: the previous line's locals are gone
LoopTop ==
    /\ pc = "top"
    /\ pc' = "read"
    /\ line' = NoLine
    /\ out' = <<>>
    /\ trace' = <<>>
    /\ used' = NoUse
    /\ UNCHANGED <<environ, argv_skip, wrapper, llm_client, redact, log, main, ask, acct>>

\* Mutant: a blank line ends the loop as end of file does
ReadLine_BlankEndsLoop ==
    /\ pc = "read"
    /\ \E l \in Lines \cup {EofLine} :
        /\ line' = l
        /\ pc' = IF l.kind \in {"eof", "garbage"} THEN "done" ELSE "process"
    /\ UNCHANGED <<environ, argv_skip, wrapper, llm_client, out, trace, used, redact, log, main, ask, acct>>

\* sys.stdin.readline(): end of file ends the loop
ReadLine ==
    /\ pc = "read"
    /\ \E l \in Lines \cup {EofLine} :
        /\ line' = l
        /\ pc' = IF l.kind = "eof" THEN "done" ELSE "process"
    /\ UNCHANGED <<environ, argv_skip, wrapper, llm_client, out, trace, used, redact, log, main, ask, acct>>

\* Mutant: a line that is not JSON ends the loop after its error
ProcessLine_StopsOnGarbage ==
    /\ pc = "process"
    /\ IF line.kind = "garbage"
       THEN /\ out' = <<ParseError>>
            /\ pc' = "done"
            /\ trace' = <<>>
            /\ used' = NoUse
            /\ UNCHANGED <<environ, argv_skip, wrapper, llm_client, line, redact, log, main, ask, acct>>
       ELSE IF ~line.dict THEN Finish(<<LoopError("null")>>, <<>>, NoUse)
       ELSE handle_request(line)

\* json.loads, handle_request and the except clauses of the loop body
ProcessLine ==
    /\ pc = "process"
    /\ IF line.kind = "garbage" THEN Finish(<<ParseError>>, <<>>, NoUse)
       ELSE IF ~line.dict THEN Finish(<<LoopError("null")>>, <<>>, NoUse)
       ELSE handle_request(line)

Next == RunStart \/ LoopTop \/ ReadLine \/ ProcessLine

Spec == Init /\ [][Next]_vars

(***************************************************************************)
(* The redaction unit: LLMClient.redact_api_key applied to a text, and     *)
(* applied again to its own output                                         *)
(***************************************************************************)
MaxPieces == 2

Front(s) == SubSeq(s, 1, Len(s) - 1)

\* The pieces a response text is put together from, for a client whose key is key
Pieces(key) == {key, Front(key), <<"x">>, Placeholder}

RECURSIVE Concat(_)
Concat(ps) == IF ps = <<>> THEN <<>> ELSE Head(ps) \o Concat(Tail(ps))

ResponseTexts(key) == {Concat(ps) : ps \in SeqsUpTo(Pieces(key), MaxPieces)}

InitRedact ==
    \E key \in Keys, skip \in BOOLEAN :
        /\ environ = [OPENROUTER_API_KEY |-> key]
        /\ argv_skip = FALSE
        /\ wrapper = NewWrapper(NoKey, PromptLimit, skip, TRUE, TRUE, TRUE, key)
        /\ llm_client = NewLLMClient(DefaultModel, "", NoKey, TRUE, TRUE, TRUE, skip, key)
        /\ pc = "unit"
        /\ line = NoLine
        /\ out = <<>>
        /\ trace = <<>>
        /\ used = NoUse
        /\ \E t \in ResponseTexts(key) :
               redact = [pc |-> "text", text |-> t, once |-> <<>>, twice |-> <<>>]
        /\ log = NoLog
        /\ main = NoMain
        /\ ask = NoAsk
        /\ acct = NoAcct

RedactOnce ==
    /\ redact.pc = "text"
    /\ redact' = [redact EXCEPT !.pc = "once",
                                !.once = redact_api_key(llm_client, redact.text)]
    /\ UNCHANGED <<environ, argv_skip, wrapper, llm_client, pc, line, out, trace, used, log, main, ask, acct>>

RedactTwice ==
    /\ redact.pc = "once"
    /\ redact' = [redact EXCEPT !.pc = "twice",
                                !.twice = redact_api_key(llm_client, redact.once)]
    /\ UNCHANGED <<environ, argv_skip, wrapper, llm_client, pc, line, out, trace, used, log, main, ask, acct>>

NextRedact == RedactOnce \/ RedactTwice

SpecRedact == InitRedact /\ [][NextRedact]_vars

(***************************************************************************)
(* Redaction properties                                                    *)
(***************************************************************************)
\* C5: for every response text that contains the client's API key verbatim,
\* with redaction enabled, the output of redact_api_key contains no
\* occurrence of the key, for every key the constructor accepts.
C5_RedactionRemovesKey ==
    (/\ redact.pc \in {"once", "twice"}
     /\ ~llm_client.skip_redaction
     /\ Contains(redact.text, llm_client.api_key))
        => ~Contains(redact.once, llm_client.api_key)

\* C6: redact_api_key is idempotent: redacting its own output changes nothing,
\* for every text and every key the constructor accepts.
C6_RedactionIdempotent ==
    redact.pc = "twice" => redact.twice = redact.once

(***************************************************************************)
(* Properties of the request pipeline                                      *)
(***************************************************************************)
\* A request object has just been handled
Handled == pc = "top" /\ line.kind = "json" /\ line.dict
ToolCall == Handled /\ line.method = "tools/call"
Registered == line.name \in wrapper.tools
NonEmptyText(v) == v.t = "str" /\ v.s # <<>>
Did(step) == \E i \in 1..Len(trace) : trace[i] = step
GatewayCalled == Did("generate_response") \/ Did("post")

\* C1: a tools/call whose prompt contains the API credential the gateway is
\* configured with (its bearer token, from the constructor argument or from
\* the environment), with outbound checks enabled, is answered with
\* -32602 'Security violation', and neither generate_response nor a POST happens.
\* (Stated for the requests that no other check rejects: a registered tool, a
\* prompt within the budget, no model override.)
C1_ConfiguredKeyRejected ==
    (/\ ToolCall /\ Registered /\ line.arguments = "dict"
     /\ NonEmptyText(line.prompt)
     /\ Contains(line.prompt.s, llm_client.api_key)
     /\ ~wrapper.skip_outbound_key_checks
     /\ line.prompt.tokens <= wrapper.max_user_prompt_tokens
     /\ line.model.t = "absent")
        => (out = <<SecurityViolation(line.id)>> /\ ~GatewayCalled)

CheckOrder ==
    <<"tool_check", "prompt_check", "secret_check", "encode", "model_validation">>
ChecksDone(k) == SubSeq(CheckOrder, 1, k)

\* The values handle_request handles without raising
WellTyped ==
    /\ line.arguments = "dict"
    /\ line.prompt.t = "int" => line.prompt.n = 0
    /\ line.model.t # "int"

\* The first check of the fixed order that the handled request fails, 0 if none
FirstFailing ==
    IF ~Registered THEN 1
    ELSE IF ~Truthy(line.prompt) THEN 2
    ELSE IF KeyLeak(line.prompt) THEN 3
    ELSE IF ExceedsBudget(line.prompt.tokens) THEN 4
    ELSE IF line.model.t = "str" /\ ~ValidateModel(line.model.s).ok THEN 5
    ELSE 0

CheckError(k) ==
    IF k = 1 THEN ToolNotFound(line.id, line.name)
    ELSE IF k = 2 THEN MissingPrompt(line.id)
    ELSE IF k = 3 THEN SecurityViolation(line.id)
    ELSE IF k = 4 THEN PromptTooLong(line.id, wrapper.max_user_prompt_tokens)
    ELSE InvalidModel(line.id, ValidateModel(line.model.s).data)

C3_BudgetForEveryPrompt ==
    (ToolCall /\ Registered /\ line.arguments = "dict" /\ NonEmptyText(line.prompt)) =>
        /\ line.prompt.tokens <= wrapper.max_user_prompt_tokens
              => out # <<PromptTooLong(line.id, wrapper.max_user_prompt_tokens)>>
        /\ line.prompt.tokens >= wrapper.max_user_prompt_tokens + 1
              => /\ out = <<PromptTooLong(line.id, wrapper.max_user_prompt_tokens)>>
                 /\ ~GatewayCalled

\* C3 amended: the same, for the prompts that the outbound secret check lets
\* through (a prompt the secret check rejects is answered 'Security violation'
\* whatever its length).
C3_BudgetAfterSecretCheck ==
    (ToolCall /\ Registered /\ line.arguments = "dict" /\ NonEmptyText(line.prompt)) =>
        /\ line.prompt.tokens <= wrapper.max_user_prompt_tokens
              => out # <<PromptTooLong(line.id, wrapper.max_user_prompt_tokens)>>
        /\ (line.prompt.tokens >= wrapper.max_user_prompt_tokens + 1
            /\ ~KeyLeak(line.prompt))
              => /\ out = <<PromptTooLong(line.id, wrapper.max_user_prompt_tokens)>>
                 /\ ~GatewayCalled

\* C3 witness: a prompt of exactly max+1 tokens rejected with the maximum quoted
C3_Witness ==
    /\ ToolCall /\ Registered /\ NonEmptyText(line.prompt)
    /\ line.prompt.tokens = wrapper.max_user_prompt_tokens + 1
    /\ out = <<PromptTooLong(line.id, wrapper.max_user_prompt_tokens)>>
    /\ out[1].data.arg = ToString(PromptLimit)

\* C4: a tools/call naming a registered tool whose arguments.prompt is absent,
\* the empty string, or not a string at all is answered with -32602
\* 'Invalid params', data "Missing required 'prompt' argument", and the
\* gateway is not called.
C4_MissingPromptRejected ==
    (/\ ToolCall /\ Registered /\ line.arguments = "dict"
     /\ ~NonEmptyText(line.prompt))
        => (out = <<MissingPrompt(line.id)>> /\ ~GatewayCalled)

\* C7: a failure of the accounting or audit sink during a completion
\* (log_prompt, log_response or track_usage raising) never propagates: the
\* tools/call response is the success envelope, the one produced when the
\* sink works.
C7_SinkFailureSwallowed ==
    (/\ ToolCall /\ used.client # "none"
     /\ (used.world.audit_fail # "none" \/ used.world.tracker_fail))
        => out = <<SuccessResponse(line.id,
                     redact_api_key(used.gateway, used.world.http.content.s))>>

\* The success envelope carrying the text generate_response returned
IsCompletion(r) ==
    /\ used.client # "none"
    /\ used.world.http.content.t = "str"
    /\ r = SuccessResponse(line.id, redact_api_key(used.gateway, used.world.http.content.s))

\* C8 as stated: every request object passed to handle_request causes exactly
\* one line to be written, either the result envelope {content, isError:false}
\* carrying the gateway's text or a JSON-RPC error object.
C8_OneCompletionOrError ==
    Handled => (Len(out) = 1 /\ (IsCompletion(out[1]) \/ out[1].kind = "error"))

\* C8 amended: every request object causes exactly one line to be written; for
\* a tools/call it is either the result envelope carrying the gateway's text
\* or an error object, and for the other methods it is the fixed result of
\* initialize, tools/list, resources/list or resources/templates/list, or the
\* method-not-found error.
C8_OneLinePerRequest ==
    Handled =>
        /\ Len(out) = 1
        /\ line.method = "tools/call" => (IsCompletion(out[1]) \/ out[1].kind = "error")
        /\ line.method # "tools/call" =>
              \/ out[1].kind = "result" /\ out[1].result # "content"
              \/ out[1] = MethodNotFound(line.id, line.method)

\* C8 witness: a completion answered with the gateway's text
C8_Witness == ToolCall /\ Len(out) = 1 /\ IsCompletion(out[1])

HasSlash(s) == Contains(s, <<"/">>)
ValidationReached == ToolCall /\ Did("model_validation") /\ line.model.t = "str"
MissingSeparator ==
    InvalidModel(line.id, "Model name must contain a '/' separator")

\* C9 as stated: for every model string that contains no '/', validation fails
\* with the missing-separator error.
C9_NoSlashIsMissingSeparator ==
    (ValidationReached /\ ~HasSlash(line.model.s)) => out = <<MissingSeparator>>

\* C9 amended: for every model string that contains no '/' and whose trimmed
\* length is at least 2, validation fails with the missing-separator error
\* (shorter ones fail with 'Model name must be at least 2 characters').
C9_LongNoSlashIsMissingSeparator ==
    (ValidationReached /\ ~HasSlash(line.model.s) /\ Len(Strip(line.model.s)) >= 2)
        => out = <<MissingSeparator>>

C9_Witness ==
    /\ ValidationReached /\ ~HasSlash(line.model.s)
    /\ Len(Strip(line.model.s)) >= 2 /\ Len(Strip(line.model.s)) < Len(line.model.s)
    /\ out = <<MissingSeparator>>

\* exactly one '/', with text on both sides of it
OneSlashBothSides(s) ==
    LET parts == Split(s, "/")
    IN  Len(parts) = 2 /\ parts[1] # <<>> /\ parts[2] # <<>>

\* validation succeeded and the gateway was handed the trimmed input
AcceptedAsTrimmed ==
    /\ Did("generate_response")
    /\ \A d \in {"Model name must be at least 2 characters",
                 "Model name must contain a '/' separator",
                 "Model name must contain a provider and a model separated by a single '/'"} :
           out # <<InvalidModel(line.id, d)>>
    /\ used.gateway.model = Strip(line.model.s)

\* C10 as stated: every model string with exactly one '/', both sides
\* non-empty and trimmed length at least 2 passes validation, and the model
\* handed to the gateway is the trimmed input.
C10_OneSlashAccepted ==
    (/\ ValidationReached
     /\ OneSlashBothSides(line.model.s)
     /\ Len(Strip(line.model.s)) >= 2)
        => AcceptedAsTrimmed

\* C10 amended: every model string whose trimmed form has exactly one '/' with
\* both sides non-empty passes validation, and the model handed to the
\* gateway is the trimmed input (a side that is only whitespace at the end of
\* the input, as in "a/ ", is empty after trimming and is rejected).
C10_TrimmedOneSlashAccepted ==
    (/\ ValidationReached
     /\ OneSlashBothSides(Strip(line.model.s))
     /\ Len(Strip(line.model.s)) >= 2)
        => AcceptedAsTrimmed

\* C10 witness: an override with surrounding whitespace reaches the gateway trimmed
C10_Witness ==
    /\ ValidationReached
    /\ OneSlashBothSides(Strip(line.model.s))
    /\ Strip(line.model.s) # line.model.s
    /\ AcceptedAsTrimmed

(***************************************************************************)
(* Model override: rejection, dispatch and the temporary gateway           *)
(***************************************************************************)
IsInvalidModelError(r) ==
    /\ r.kind = "error" /\ r.code = -32602
    /\ r.message = Msg("Invalid model specification", "")

\* arguments.model is present and is not a valid model specification
ModelPresentInvalid ==
    \/ line.model.t = "int"
    \/ line.model.t = "str" /\ ~ValidateModel(line.model.s).ok

\* C11: every tools/call whose arguments.model is present and fails validation
\* (too short after trimming, no '/', not exactly two non-empty parts, or any
\* other invalid value) is answered with error -32602 'Invalid model
\* specification', and no gateway is constructed and generate_response is not
\* called.
C11_InvalidModelRejected ==
    (ToolCall /\ Did("model_validation") /\ ModelPresentInvalid) =>
        /\ Len(out) = 1 /\ IsInvalidModelError(out[1])
        /\ ~Did("construct") /\ ~GatewayCalled

(***************************************************************************)
(* Accounting and audit toggles                                            *)
(***************************************************************************)
\* how many times a step was performed for the current line
Count(step) == Len(SelectSeq(trace, LAMBDA e : e = step))

\* the tools/call was answered with the success envelope
Succeeded ==
    /\ ToolCall /\ Len(out) = 1
    /\ out[1].kind = "result" /\ out[1].result = "content"

KnownMethods ==
    {"initialize", "tools/list", "tools/call", "resources/list", "resources/templates/list"}

\* the remote API did not answer the call with a 200 response
GatewayFailed ==
    used.client # "none"
        /\ (used.world.http.kind # "response" \/ used.world.http.status # 200)

\* the line processed last is one that fails: JSON that is no object, an
\* unknown method, an unknown tool, a validation error or a gateway failure
FailingLine ==
    /\ line.kind = "json"
    /\ \/ ~line.dict
       \/ line.method \notin KnownMethods
       \/ /\ line.method = "tools/call"
          /\ (~Registered \/ ~WellTyped \/ FirstFailing > 0 \/ GatewayFailed)

\* what the loop has written for the line processed last
LineAnswered ==
    /\ line.kind = "garbage" =>
          /\ Len(out) = 1 /\ out[1].kind = "error" /\ out[1].code = -32700
          /\ out[1].message = Msg("Parse error", "") /\ out[1].id = "null"
    /\ FailingLine => (Len(out) = 1 /\ out[1].kind = "error")

\* C13: the loop of run keeps running after any single-line error: for a line
\* that is malformed JSON it writes exactly one error -32700 'Parse error' with
\* id null, for every other failing line exactly one error object, and in each
\* case it then goes back to the top of the loop and reads the next line.
C13_LoopContinues ==
    /\ [](pc = "top" => ENABLED LoopTop)
    /\ [](pc = "read" => ENABLED ReadLine)
    /\ [][/\ pc = "process" => (pc' = "top" /\ LineAnswered')
          /\ pc = "top" => pc' = "read"
          /\ pc = "read" => (line' \in Lines \/ (line' = EofLine /\ pc' = "done"))]_vars

\* C13 witness: a line that is not JSON answered with the parse error, the
\* loop standing at its top again
C13_Witness == pc = "top" /\ line = GarbageLine /\ out = <<ParseError>>

(***************************************************************************)
(* The gateway that serves a call                                          *)
(***************************************************************************)
\* a model override was supplied and differs from the pipeline's default model
OverrideDiffers ==
    line.model.t = "str" /\ Strip(line.model.s) # llm_client.model

\* C14: if a model override is supplied and differs from the pipeline's
\* default model, a one-shot gateway configured with that model is constructed
\* and used for exactly that call; in every other case (no override, or an
\* override equal to the default model) the persistent gateway is used and no
\* new gateway is constructed.
C14_TempOnlyWhenModelDiffers ==
    (ToolCall /\ Did("generate_response")) =>
        IF OverrideDiffers
        THEN /\ Count("construct") = 1 /\ Count("generate_response") = 1
             /\ used.client = "temp"
             /\ used.gateway.model = Strip(line.model.s)
        ELSE /\ Count("construct") = 0
             /\ used.client = "persistent" /\ used.gateway = llm_client

\* C15: the one-shot gateway built for a model-override request has the same
\* API credential, base URL, accounting toggle, audit toggle, rate-limiting
\* toggle and secret-check/redaction toggle as the persistent gateway at that
\* moment; only the model differs.
C15_TempInheritsConfiguration ==
    (ToolCall /\ used.client = "temp" /\ OverrideDiffers) =>
        /\ used.gateway.api_key = llm_client.api_key
        /\ used.gateway.base_url = llm_client.base_url
        /\ used.gateway.has_tracker = llm_client.has_tracker
        /\ used.gateway.has_audit = llm_client.has_audit
        /\ used.gateway.enable_rate_limiting = llm_client.enable_rate_limiting
        /\ used.gateway.skip_redaction = llm_client.skip_redaction

\* what holds of the gateways in every state
TempIsLocal ==
    /\ llm_client.model = DefaultModel
    /\ pc = "read" => used = NoUse
    /\ ToolCall =>
          /\ Count("generate_response") <= 1 /\ Count("construct") <= 1
          /\ used.client = "temp" =>
                (Count("construct") = 1 /\ used.gateway = TempClient(Strip(line.model.s)))
          /\ (Did("generate_response") /\ line.model.t = "absent") =>
                /\ used.client = "persistent" /\ Count("construct") = 0
                /\ used.gateway = llm_client /\ used.gateway.model = DefaultModel

\* C16: a temporary gateway created for a model-override request is used for
\* at most one generate_response call, is never used by a later request and is
\* not retained after the response (success or failure): the wrapper's own
\* gateway is never replaced, and after any sequence of override requests a
\* request without override is served by the persistent gateway with the
\* default model.
C16_TempNeverRetained ==
    /\ []TempIsLocal
    /\ [][llm_client' = llm_client]_vars

\* C16 witness: an override request served (with a failure) by a temporary
\* gateway of another model, the wrapper's gateway being the one it was built with
C16_Witness ==
    /\ ToolCall /\ used.client = "temp" /\ Count("generate_response") = 1
    /\ used.gateway.model # DefaultModel /\ llm_client.model = DefaultModel
    /\ out[1].kind = "error"

(***************************************************************************)
(* Failures of the remote API                                              *)
(***************************************************************************)
\* the remote API answered the POST of the current line with this status
Answered(status) ==
    /\ ToolCall /\ used.client # "none" /\ Did("post")
    /\ used.world.http.kind = "response" /\ used.world.http.status = status

\* the Retry-After header's value, 60 when the header is absent
RetryAfter == IF used.world.http.retry_after = "" THEN "60" ELSE used.world.http.retry_after

\* C17: when the remote API answers with status 429, the gateway fails with a
\* rate-limit error carrying the Retry-After header value (60 when the header
\* is absent), and the tools/call response is an error with code -32000 whose
\* message contains 'Retry after <n> seconds' for that value n.
C17_RateLimitReported ==
    Answered(429) =>
        /\ Len(out) = 1 /\ out[1].kind = "error" /\ out[1].code = -32000
        /\ out[1].message =
              Msg("API rate limit exceeded: Retry after {retry_after} seconds", RetryAfter)
        /\ ~Did("log_response") /\ ~Did("track_usage")

\* C17 witness: a 429 with Retry-After: 30 reported as 'Retry after 30 seconds'
C17_Witness ==
    /\ Answered(429) /\ used.world.http.retry_after = "30"
    /\ out[1].code = -32000 /\ out[1].message.arg = "30"

\* a 200 answer whose body has no usable completion text
MalformedBody ==
    \/ used.world.http.body \in {"nochoices", "nocontent"}
    \/ used.world.http.body = "content" /\ used.world.http.content.t # "str"

MalformedMessages ==
    {"Invalid API response format: Missing choices array",
     "Invalid API response format: Missing message content",
     "Unexpected API response format: {e}"}

\* C18: for every 2xx response whose JSON body has 'choices' missing or not a
\* non-empty list, or whose first choice lacks message.content (a null or
\* non-string content included), the gateway fails with a malformed-response
\* error ('Invalid API response format' / 'Unexpected API response format'),
\* returns no result, and makes no log_response or track_usage call.
C18_MalformedResponseReported ==
    (Answered(200) /\ MalformedBody) =>
        /\ Len(out) = 1 /\ out[1].kind = "error"
        /\ out[1].message.pre = "" /\ out[1].message.fmt \in MalformedMessages
        /\ ~Did("log_response") /\ ~Did("track_usage")

(***************************************************************************)
(* Startup                                                                 *)
(***************************************************************************)
IsServerReady(r) ==
    /\ r.kind = "notification" /\ r.message = Msg("mcp/serverReady", "")
    /\ r.id = "null" /\ r.result = "capabilities"

\* nothing has been read or written yet
NothingYet == out = <<>> /\ line = NoLine /\ trace = <<>>

\* C19: run writes the server-ready notification (method 'mcp/serverReady',
\* id null, carrying the capability set) exactly once and before it reads the
\* first line from stdin; no response to a request is written before it.
C19_ServerReadyFirst ==
    /\ [](pc = "start" => NothingYet)
    /\ [][/\ pc = "start" =>
               (pc' = "top" /\ Len(out') = 1 /\ IsServerReady(out'[1]) /\ line' = NoLine)
          /\ pc # "start" =>
               (pc' # "start" /\ \A i \in 1..Len(out') : ~IsServerReady(out'[i]) \/ out' = out)
          /\ pc' \in {"read", "process"} => pc # "start"]_vars

\* C19 witness: the notification written, nothing read yet
C19_Witness ==
    pc = "top" /\ Len(out) = 1 /\ IsServerReady(out[1]) /\ line = NoLine

(***************************************************************************)
(* The logging unit: one call on the gateway's logger, the ApiKeyFilter    *)
(* attached by LLMClient.__init__, and the message the handlers format     *)
(***************************************************************************)
\* the filter's replacement text
RedactedMark ==
    <<"*", "*", "*", "R", "E", "D", "A", "C", "T", "E", "D", "*", "*", "*">>

Directive == <<"%", "s">>

\* logger.debug(f"DEBUG: LLMClient initialized with API Key: {self.api_key}")
KeyMessagePrefix ==
    <<"D", "E", "B", "U", "G", ":", " ", "L", "L", "M", "C", "l", "i", "e",
      "n", "t", " ", "i", "n", "i", "t", "i", "a", "l", "i", "z", "e", "d",
      " ", "w", "i", "t", "h", " ", "A", "P", "I", " ", "K", "e", "y", ":",
      " ">>

\* logger.debug("DEBUG: Request payload: %s", payload)
PayloadFormat ==
    <<"D", "E", "B", "U", "G", ":", " ", "R", "e", "q", "u", "e", "s", "t",
      " ", "p", "a", "y", "l", "o", "a", "d", ":", " ", "%", "s">>

\* logger.debug("DEBUG: Request headers: %s", self.headers)
HeadersFormat ==
    <<"D", "E", "B", "U", "G", ":", " ", "R", "e", "q", "u", "e", "s", "t",
      " ", "h", "e", "a", "d", "e", "r", "s", ":", " ", "%", "s">>

\* self.headers["Authorization"]
Authorization(api_key) == <<"B", "e", "a", "r", "e", "r", " ">> \o api_key

Record(msg, args) == [msg |-> msg, args |-> args]

\* The calls a client makes on its logger once a filter for its key is
\* attached: the key message of a further construction with the same key,
\* the payload (which carries the prompt) and the headers of a request
LoggerCalls(client, texts) ==
    {Record(KeyMessagePrefix \o client.api_key, <<>>),
     Record(HeadersFormat, <<Authorization(client.api_key)>>)}
        \cup {Record(PayloadFormat, <<t>>) : t \in texts}

\* ApiKeyFilter.filter: the key replaced in record.msg
filter(api_key, record) ==
    IF api_key # <<>>
    THEN [record EXCEPT !.msg = StrReplace(record.msg, api_key, RedactedMark)]
    ELSE record

\* msg % args for a message with one %s directive
RECURSIVE Substitute(_, _)
Substitute(msg, arg) ==
    IF Len(msg) < Len(Directive) THEN msg
    ELSE IF SubSeq(msg, 1, Len(Directive)) = Directive
         THEN arg \o SubSeq(msg, Len(Directive) + 1, Len(msg))
         ELSE <<msg[1]>> \o Substitute(Tail(msg), arg)

\* LogRecord.getMessage: the arguments substituted into the message
getMessage(record) ==
    IF record.args = <<>> THEN record.msg ELSE Substitute(record.msg, record.args[1])

InitLog ==
    \E key \in Keys, skip \in BOOLEAN :
        /\ environ = [OPENROUTER_API_KEY |-> key]
        /\ argv_skip = FALSE
        /\ wrapper = NewWrapper(NoKey, PromptLimit, skip, TRUE, TRUE, TRUE, key)
        /\ llm_client = NewLLMClient(DefaultModel, "", NoKey, TRUE, TRUE, TRUE, skip, key)
        /\ pc = "unit"
        /\ line = NoLine
        /\ out = <<>>
        /\ trace = <<>>
        /\ used = NoUse
        /\ redact = NoRedact
        /\ main = NoMain
        /\ ask = NoAsk
        /\ acct = NoAcct
        /\ \E r \in LoggerCalls(llm_client, ResponseTexts(key)) :
               log = [pc |-> "call", msg |-> r.msg, args |-> r.args, formatted |-> <<>>]

\* Logger.handle: the filters of the logger are applied to the record
LogFilter ==
    /\ log.pc = "call"
    /\ LET r == filter(llm_client.api_key, Record(log.msg, log.args))
       IN  log' = [log EXCEPT !.pc = "filtered", !.msg = r.msg, !.args = r.args]
    /\ UNCHANGED <<environ, argv_skip, wrapper, llm_client, pc, line, out, trace, used, redact, main, ask, acct>>

\* Handler.format: the final message of the record
LogFormat ==
    /\ log.pc = "filtered"
    /\ log' = [log EXCEPT !.pc = "formatted",
                          !.formatted = getMessage(Record(log.msg, log.args))]
    /\ UNCHANGED <<environ, argv_skip, wrapper, llm_client, pc, line, out, trace, used, redact, main, ask, acct>>

NextLog == LogFilter \/ LogFormat

SpecLog == InitLog /\ [][NextLog]_vars

\* C20: every log record emitted through the gateway's logger once an
\* ApiKeyFilter for the API key is attached has a final formatted message
\* (format string with its arguments substituted) that does not contain the
\* API key.
C20_LogMessageWithoutKey ==
    log.pc = "formatted" => ~Contains(log.formatted, llm_client.api_key)

(***************************************************************************)
(* __main__.main: the command line, the allowed-models file, construction  *)
(* of the server and its run                                               *)
(***************************************************************************)
MaxFileLines == 2

\* --limit-user-prompt-length's default, and LLMMCPWrapper's max_user_prompt_tokens default
DefaultPromptLimit == 100

OtherModel == <<"a", "a", "/", "a">>
ThirdModel == <<"a", "/", "a", "a">>

\* the values tried for --model
MainModels == {DefaultModel, OtherModel}

\* the values tried for --allowed-models-file: not given, given empty, given
AllowedFileArgs == {"absent", "", "models.txt"}

\* the lines an allowed-models file is made of: a model followed by
\* whitespace, a model, a blank line
FileLines == {DefaultModel \o <<" ">>, OtherModel, <<" ">>}
FileContents == SeqsUpTo(FileLines, MaxFileLines)

\* the values tried for --limit-user-prompt-length
LimitArgs == {Absent, Num(PromptLimit)}

\* [line.strip() for line in f if line.strip()]
RECURSIVE StrippedLines(_)
StrippedLines(f) ==
    IF f = <<>> THEN <<>>
    ELSE (IF Strip(Head(f)) # <<>> THEN <<Strip(Head(f))>> ELSE <<>>)
             \o StrippedLines(Tail(f))

Listed(m, models) == \E i \in 1..Len(models) : models[i] = m

\* _validate_allowed_models: "ok" when it returns, "exit" when it calls sys.exit(1)
validate_allowed_models(args_model, allowed_models_file_path, exists, f) ==
    IF allowed_models_file_path \in {"absent", ""} THEN "ok"
    ELSE IF ~exists THEN "exit"
    ELSE LET allowed_models == StrippedLines(f)
         IN  IF allowed_models = <<>> THEN "exit"
             ELSE IF ~Listed(args_model, allowed_models) THEN "exit"
             ELSE "ok"

\* args.limit_user_prompt_length
limit_user_prompt_length(arg) == IF arg.t = "absent" THEN DefaultPromptLimit ELSE arg.n

NoWrapper == NewWrapper(NoKey, 0, FALSE, FALSE, FALSE, FALSE, NoKey)

InitMain ==
    \E m \in MainModels, a \in AllowedFileArgs, e \in BOOLEAN,
       f \in FileContents, l \in LimitArgs, flag \in BOOLEAN :
        /\ a # "models.txt" => ~e
        /\ ~e => f = <<>>
        /\ main = [pc |-> "args", model |-> m, allowed_models_file |-> a,
                   exists |-> e, file |-> f, limit |-> l, status |-> 0]
        /\ environ = [OPENROUTER_API_KEY |-> KeyA]
        /\ argv_skip = flag
        /\ wrapper = NoWrapper
        /\ llm_client = NoClient
        /\ pc = "main"
        /\ line = NoLine
        /\ out = <<>>
        /\ trace = <<>>
        /\ used = NoUse
        /\ redact = NoRedact
        /\ log = NoLog
        /\ ask = NoAsk
        /\ acct = NoAcct

\* main(): the arguments parsed, the model validated against the file
MainValidate ==
    /\ main.pc = "args"
    /\ LET v == validate_allowed_models(main.model, main.allowed_models_file,
                                        main.exists, main.file)
       IN  main' = IF v = "exit"
                   THEN [main EXCEPT !.pc = "exited", !.status = 1]
                   ELSE [main EXCEPT !.pc = "validated"]
    /\ UNCHANGED <<environ, argv_skip, wrapper, llm_client, pc, line, out, trace, used, redact, log, ask, acct>>

\* main(): server = LLMMCPWrapper(...), max_user_prompt_tokens not passed
MainConstruct ==
    /\ main.pc = "validated"
    /\ main' = [main EXCEPT !.pc = "running"]
    /\ wrapper' = NewWrapper(NoKey, DefaultPromptLimit, argv_skip, TRUE, TRUE, TRUE,
                             environ.OPENROUTER_API_KEY)
    /\ llm_client' = NewLLMClient(main.model, "", NoKey, TRUE, TRUE, TRUE, argv_skip,
                                  environ.OPENROUTER_API_KEY)
    /\ pc' = "start"
    /\ UNCHANGED <<environ, argv_skip, line, out, trace, used, redact, log, ask, acct>>

\* the requests tried against the server main() started
MainPrompts ==
    {Prompt(Hello, n) : n \in {PromptLimit, PromptLimit + 1,
                               DefaultPromptLimit, DefaultPromptLimit + 1}}
MainLines ==
    {JsonLine("tools/call", id, "llm_call", "dict", p, m) :
        id \in RequestIds, p \in MainPrompts,
        m \in {Absent, Str(DefaultModel), Str(OtherModel), Str(ThirdModel)}}

\* sys.stdin.readline() of the server main() started
ReadLineMain ==
    /\ pc = "read" /\ main.pc = "running"
    /\ \E l \in MainLines \cup {EofLine} :
        /\ line' = l
        /\ pc' = IF l.kind = "eof" THEN "done" ELSE "process"
    /\ UNCHANGED <<environ, argv_skip, wrapper, llm_client, out, trace, used, redact, log, main, ask, acct>>

NextMain ==
    MainValidate \/ MainConstruct \/ RunStart \/ LoopTop \/ ReadLineMain \/ ProcessLine

SpecMain == InitMain /\ [][NextMain]_vars

\* --allowed-models-file was given on the command line
FileGiven == main.allowed_models_file # "absent"

\* the file is missing, has no non-blank line, or does not list --model
NotAllowed ==
    \/ ~main.exists
    \/ StrippedLines(main.file) = <<>>
    \/ \A i \in 1..Len(main.file) : Strip(main.file[i]) # main.model

\* C21: when --allowed-models-file is given: if the file does not exist,
\* contains no non-blank line, or does not list the --model value, main()
\* exits with status 1 and the server is never constructed nor run; if the
\* model is listed, startup proceeds to construct and run the server.
C21_AllowedModelsEnforcedAtStartup ==
    (FileGiven /\ main.pc # "args") =>
        IF NotAllowed
        THEN /\ main.pc = "exited" /\ main.status = 1
             /\ wrapper = NoWrapper /\ llm_client = NoClient /\ pc = "main"
        ELSE main.pc \in {"validated", "running"}

(***************************************************************************)
(* AskOnlineQuestionServer.run (ask_online_question_server.py)             *)
(***************************************************************************)
MaxAskLines == 3

\* LLMClient defines no close method (hasattr(llm_client, "close"))
LLMClientHasClose == FALSE

\* the lines tried on the server's stdin
AskLines ==
    {"garbage", "nonobject", "initialize", "tools/list", "bogus",
     "call_unknown_tool", "call_no_prompt", "call_ok", "call_gateway_error"}

InitAsk ==
    /\ ask = [pc |-> "start", n |-> 0, last |-> "", written |-> 0,
              closes |-> 0, released |-> FALSE, exit |-> "none"]
    /\ environ = [OPENROUTER_API_KEY |-> KeyA]
    /\ argv_skip = FALSE
    /\ wrapper = NoWrapper
    /\ llm_client = NewLLMClient(DefaultModel, "", NoKey, TRUE, TRUE, TRUE, FALSE, KeyA)
    /\ pc = "unit"
    /\ line = NoLine
    /\ out = <<>>
    /\ trace = <<>>
    /\ used = NoUse
    /\ redact = NoRedact
    /\ log = NoLog
    /\ main = NoMain
    /\ acct = NoAcct

AskFrame ==
    UNCHANGED <<environ, argv_skip, wrapper, llm_client, pc, line, out, trace, used, redact, log, main, acct>>

\* run(): the initial capabilities, written before the try
AskStart ==
    /\ ask.pc = "start"
    /\ \E fault \in {"none", "stdout_raises"} :
          ask' = IF fault = "none"
                 THEN [ask EXCEPT !.pc = "read", !.written = 1]
                 ELSE [ask EXCEPT !.pc = "exited", !.exit = "raised"]
    /\ AskFrame

\* sys.stdin.readline(): EOF breaks the loop, an exception is fatal
AskRead ==
    /\ ask.pc = "read"
    /\ \/ /\ ask.n < MaxAskLines
          /\ \E l \in AskLines : ask' = [ask EXCEPT !.pc = "process", !.last = l, !.n = @ + 1]
       \/ ask' = [ask EXCEPT !.pc = "finally", !.last = "eof", !.exit = "eof"]
       \/ ask' = [ask EXCEPT !.pc = "finally", !.last = "stdin_raises", !.exit = "fatal"]
    /\ AskFrame

\* json.loads, handle_request and the except clauses: one response is
\* written; a failing stdout raises again in the except clause and is fatal
AskProcess ==
    /\ ask.pc = "process"
    /\ \E fault \in {"none", "stdout_raises"} :
          ask' = IF fault = "none"
                 THEN [ask EXCEPT !.pc = "read", !.written = @ + 1]
                 ELSE [ask EXCEPT !.pc = "finally", !.exit = "fatal"]
    /\ AskFrame

\* finally: self.llm_client.close(), its exception caught and logged
AskFinally ==
    /\ ask.pc = "finally"
    /\ ask' = IF LLMClientHasClose
              THEN [ask EXCEPT !.pc = "exited", !.closes = @ + 1, !.released = TRUE]
              ELSE \* AttributeError: 'LLMClient' object has no attribute 'close'
                   [ask EXCEPT !.pc = "exited"]
    /\ AskFrame

NextAsk == AskStart \/ AskRead \/ AskProcess \/ AskFinally

SpecAsk == InitAsk /\ [][NextAsk]_vars

\* C22: AskOnlineQuestionServer.run releases the gateway on every exit path of
\* its request loop: whether the loop ends by EOF on stdin or by a fatal
\* exception, llm_client.close() is called exactly once, after the last
\* response has been written.
C22_GatewayClosedOnExit ==
    (ask.pc = "exited" /\ ask.exit \in {"eof", "fatal"}) =>
        (ask.closes = 1 /\ ask.released)

(***************************************************************************)
(* The accounting unit: LLMAccountingManager built while its storage may   *)
(* fail, inside LLMClient.__init__, and the three record methods called    *)
(***************************************************************************)
\* Mutant: a failure of the tracker's construction also drops the audit logger
LLMAccountingManager_TrackerFailureDropsAudit(enable_logging, enable_audit_log, makedirs_raises, tracker_raises, audit_raises) ==
    [ok |-> ~makedirs_raises,
     has_tracker |-> ~makedirs_raises /\ enable_logging /\ ~tracker_raises,
     has_audit |-> /\ ~makedirs_raises /\ enable_audit_log /\ ~audit_raises
                   /\ ~(enable_logging /\ tracker_raises)]

\* LLMAccountingManager.__init__: os.makedirs outside any try; the tracker's
\* and the audit logger's construction each in its own try/except
LLMAccountingManager(enable_logging, enable_audit_log, makedirs_raises, tracker_raises, audit_raises) ==
    [ok |-> ~makedirs_raises,
     has_tracker |-> ~makedirs_raises /\ enable_logging /\ ~tracker_raises,
     has_audit |-> ~makedirs_raises /\ enable_audit_log /\ ~audit_raises]

SinkFailures == {"none", "log_prompt", "log_response"}

InitAccounting ==
    \E el \in BOOLEAN, ea \in BOOLEAN, md \in BOOLEAN, tf \in BOOLEAN, af \in BOOLEAN,
       sf \in SinkFailures :
        /\ acct = [pc |-> "new", enable_logging |-> el, enable_audit_log |-> ea,
                   makedirs_raises |-> md, tracker_raises |-> tf, audit_raises |-> af,
                   world |-> World(OkHi, sf, TRUE), events |-> <<>>, raised |-> {}]
        /\ environ = [OPENROUTER_API_KEY |-> KeyA]
        /\ argv_skip = FALSE
        /\ wrapper = NoWrapper
        /\ llm_client = NoClient
        /\ pc = "unit"
        /\ line = NoLine
        /\ out = <<>>
        /\ trace = <<>>
        /\ used = NoUse
        /\ redact = NoRedact
        /\ log = NoLog
        /\ main = NoMain
        /\ ask = NoAsk

\* LLMClient.__init__: the manager built, then the rest of the constructor
AcctConstruct ==
    /\ acct.pc = "new"
    /\ LET am == LLMAccountingManager(acct.enable_logging, acct.enable_audit_log,
                                      acct.makedirs_raises, acct.tracker_raises,
                                      acct.audit_raises)
           c == NewLLMClient(DefaultModel, "", NoKey, acct.enable_logging, TRUE,
                             acct.enable_audit_log, FALSE, environ.OPENROUTER_API_KEY)
       IN  IF am.ok
           THEN /\ llm_client' = [c EXCEPT !.has_tracker = am.has_tracker,
                                           !.has_audit = am.has_audit]
                /\ acct' = [acct EXCEPT !.pc = "built"]
           ELSE /\ llm_client' = llm_client
                /\ acct' = [acct EXCEPT !.pc = "failed"]
    /\ UNCHANGED <<environ, argv_skip, wrapper, pc, line, out, trace, used, redact, log, main, ask>>

\* one record method called on the manager
AcctCall(from, to, r, name) ==
    /\ acct.pc = from
    /\ acct' = [acct EXCEPT !.pc = to, !.events = @ \o r.events,
                            !.raised = IF r.raised THEN @ \cup {name} ELSE @]
    /\ UNCHANGED <<environ, argv_skip, wrapper, llm_client, pc, line, out, trace, used, redact, log, main, ask>>

AcctLogPrompt == AcctCall("built", "prompt", log_prompt(llm_client, acct.world), "log_prompt")
AcctLogResponse ==
    AcctCall("prompt", "response", log_response(llm_client, acct.world), "log_response")
AcctTrackUsage == AcctCall("response", "usage", track_usage(llm_client, acct.world), "track_usage")

NextAccounting == AcctConstruct \/ AcctLogPrompt \/ AcctLogResponse \/ AcctTrackUsage

SpecAccounting == InitAccounting /\ [][NextAccounting]_vars

\* the constructor of the tracker (of the audit logger) was called and raised
TrackerFailed == ~acct.makedirs_raises /\ acct.enable_logging /\ acct.tracker_raises
AuditFailed == ~acct.makedirs_raises /\ acct.enable_audit_log /\ acct.audit_raises

Recorded(name) == \E i \in 1..Len(acct.events) : acct.events[i] = name

\* C23: if constructing the usage tracker or the audit logger fails while
\* LLMAccountingManager is built, construction of the manager and of the
\* gateway still succeeds, the failed channel is a no-op (its record methods do
\* nothing and raise nothing), and the other channel is unaffected.
C23_FailedChannelIsNoOp ==
    ((TrackerFailed \/ AuditFailed) /\ acct.pc # "new") =>
        /\ acct.pc # "failed" /\ llm_client # NoClient
        /\ TrackerFailed =>
              /\ ~llm_client.has_tracker
              /\ ~Recorded("track_usage") /\ "track_usage" \notin acct.raised
        /\ AuditFailed =>
              /\ ~llm_client.has_audit
              /\ ~Recorded("log_prompt") /\ ~Recorded("log_response")
              /\ acct.raised \cap {"log_prompt", "log_response"} = {}
        /\ ~TrackerFailed =>
              /\ llm_client.has_tracker = acct.enable_logging
              /\ acct.pc = "usage" => (Recorded("track_usage") <=> acct.enable_logging)
        /\ ~AuditFailed =>
              /\ llm_client.has_audit = acct.enable_audit_log
              /\ acct.pc \in {"prompt", "response", "usage"} =>
                    (Recorded("log_prompt") <=> acct.enable_audit_log)

\* C23 witness: the tracker's construction failed, the gateway was built, the
\* audit calls were recorded and the usage call did nothing
C23_Witness ==
    /\ TrackerFailed /\ ~AuditFailed /\ acct.enable_audit_log
    /\ acct.pc = "usage" /\ llm_client # NoClient
    /\ Recorded("log_prompt") /\ Recorded("log_response") /\ ~Recorded("track_usage")
    /\ acct.raised = {}

(***************************************************************************)
(* The side effects of one generate_response call                          *)
(***************************************************************************)
\* what was done from the call of generate_response on
RECURSIVE From(_, _)
From(tr, step) ==
    IF tr = <<>> THEN <<>>
    ELSE IF Head(tr) = step THEN Tail(tr) ELSE From(Tail(tr), step)

SideEffects == From(trace, "generate_response")

When(cond, step) == IF cond THEN <<step>> ELSE <<>>

\* the sinks did what they were asked to
SinksWork == used.world.audit_fail = "none"

\* the POST failed, or its response was rejected
PostFailed == GatewayFailed \/ (Answered(200) /\ MalformedBody)

C25_TimeoutReported ==
    (ToolCall /\ Did("post") /\ used.world.http.kind = "timeout") =>
        /\ Len(out) = 1 /\ out[1].kind = "error" /\ out[1].code = -32000
        /\ out[1].message = Msg("LLM call timed out.", "")

(***************************************************************************)
(* The server main() started                                               *)
(***************************************************************************)
\* a tools/call handled by the server main() constructed
MainToolCall == main.pc = "running" /\ ToolCall

\* the value given with --limit-user-prompt-length, or its default
GivenLimit == limit_user_prompt_length(main.limit)

\* C26: for the server started through main(), the maximum prompt token count
\* enforced on tools/call requests (and quoted in the budget error) equals the
\* value given with --limit-user-prompt-length, or 100 when the option is
\* absent.
C26_LimitOptionEnforced ==
    (MainToolCall /\ Registered /\ NonEmptyText(line.prompt) /\ ~KeyLeak(line.prompt)) =>
        /\ wrapper.max_user_prompt_tokens = GivenLimit
        /\ line.prompt.tokens > GivenLimit =>
              (out = <<PromptTooLong(line.id, GivenLimit)>> /\ ~GatewayCalled)
        /\ line.prompt.tokens <= GivenLimit =>
              \A n \in {GivenLimit, DefaultPromptLimit} : out # <<PromptTooLong(line.id, n)>>

\* the server was started with an allowed-models file that passed validation
StartedWithAllowedFile ==
    main.pc = "running" /\ main.allowed_models_file \notin {"absent", ""}

\* C28: when the server is started with an allowed-models file, every model
\* identifier sent in an outbound completion payload during the server's
\* lifetime, the models supplied per request through arguments.model
\* included, is a member of the allowed list.
C28_OnlyAllowedModelsSent ==
    (StartedWithAllowedFile /\ ToolCall /\ Did("post")) =>
        Listed(used.gateway.model, StrippedLines(main.file))

(***************************************************************************)
(* Configuration, usage headers, termination                               *)
(***************************************************************************)
\* the outbound-secret-check toggle goes from enabled to disabled
ToggleDisabled ==
    /\ ~wrapper.skip_outbound_key_checks
    /\ wrapper' = [wrapper EXCEPT !.skip_outbound_key_checks = TRUE]

\* C27: after construction no handle_request call changes any configuration
\* value (model, base URL, credential, max prompt tokens, accounting and audit
\* toggles, tool set); the only change is the outbound-secret-check toggle,
\* which run() changes at most once, before the first request is read, and
\* only from enabled to disabled.
C27_ConfigurationFrozen ==
    /\ [](pc = "start" => line = NoLine)
    /\ [][/\ llm_client' = llm_client /\ environ' = environ
          /\ pc # "start" => wrapper' = wrapper
          /\ pc = "start" => (wrapper' = wrapper \/ ToggleDisabled)
          /\ pc' = "start" => pc = "start"]_vars

\* C27 witness: the flag has disabled the checks of a wrapper constructed with
\* them enabled, and a request was then handled
C27_Witness ==
    /\ ToolCall /\ argv_skip /\ wrapper.skip_outbound_key_checks
    /\ ~llm_client.skip_redaction /\ Did("generate_response")

\* C29: whenever the HTTP call returns a 2xx response with a valid non-empty
\* choices array and string message.content, generate_response returns a
\* result carrying that (redacted) content, whatever the usage headers are:
\* absent, numeric or non-numeric values never turn a successful completion
\* into a failure, with accounting enabled or disabled.
C29_UsageHeadersNeverFail ==
    (/\ Answered(200) /\ SinksWork
     /\ used.world.http.body = "content" /\ used.world.http.content.t = "str")
        => out = <<SuccessResponse(line.id,
                      redact_api_key(used.gateway, used.world.http.content.s))>>

====
